---- MODULE Spec2Model ----
(***************************************************************************)
(* Model of the meta_tft pipeline: src/update_google_sheet.py (key         *)
(* normalisation, catalog cache, name resolution, grid layout and the       *)
(* instructions sent to the sheet) and src/scrape_meta.py (tier table).     *)
(*                                                                         *)
(* Texts that go through _norm_key are handled at the level of code        *)
(* points: a TLA+ string stands for a Python str of ASCII characters, and   *)
(* Codes(s) is its sequence of code points.                                 *)
(***************************************************************************)
EXTENDS Integers, Sequences, FiniteSets, TLC

VARIABLES
    pc,             \* position of the process: start/loop/format/done/failed in
                    \* update_google_sheet, resolving, scraped/classified
    meta_list,      \* data["meta"]
    champions_db,   \* data["champions_db"]
    floor_env,      \* int(os.getenv("META_MIN_CHAMPIONS", "8"))
    all_rows,       \* rows to write (header first)
    blocks,         \* (current_row, block_height, enriched_champs) per composition
    current_row,    \* 1-indexed sheet row of the next block
    cache,          \* files of .cache/meta_tft: file name -> content ("" when absent)
    logged,         \* _MISSING_ITEMS_LOGGED
    printed,        \* what the process has printed, in order: the diagnostics of
                    \* get_item_image_url and the last lines of update_google_sheet
    worksheet,      \* what the worksheet holds: "old", "cleared" or "written"
    requests,       \* merge/unmerge instructions of the batchUpdate, in order
    resolved,       \* history of the direct calls of get_item_image_url and their results
    avg_place,      \* avg_place of a scraped composition, in thousandths
    classement,     \* the tier given to it ("" before it is classified)
    normed,         \* history of the calls of _norm_key: argument and key
    previous,       \* rows, blocks and cache files an earlier run of
                    \* update_google_sheet over the same data ended with
    upstream,       \* versions[0] of the versions.json the upstream serves now
    asked,          \* the calls of _dd_latest_version, process by process
    all_divs,       \* texts of the divs of a composition container (scrape_meta.py)
    comps,          \* the records scrape_tactics_tools has built
    final_meta      \* final_data['meta'] dumped by the post-cleaning of scrape_meta.main

vars == <<pc, meta_list, champions_db, floor_env, all_rows, blocks, current_row,
          cache, logged, printed, worksheet, requests, resolved, avg_place, classement,
          normed, previous, upstream, asked, all_divs, comps, final_meta>>

\* the variables of the version provider's history and of scrape_meta.py
aside == <<upstream, asked, all_divs, comps, final_meta>>

(***************************************************************************)
(* Text helpers                                                            *)
(***************************************************************************)
\* the printable ASCII characters by code point: 32..95 and 97..126 (the
\* back-tick, code 96, cannot be written in a TLA+ string and appears in the
\* model only as the code point)
AsciiLow == " !\"#$%&'()*+,-./0123456789:;<=>?@ABCDEFGHIJKLMNOPQRSTUVWXYZ[\\]^_"

AsciiHigh == "abcdefghijklmnopqrstuvwxyz{|}~"

CharAt(s, i) == SubSeq(s, i, i)

OrdTable ==
    [c \in {CharAt(AsciiLow, i) : i \in 1..Len(AsciiLow)}
            \cup {CharAt(AsciiHigh, i) : i \in 1..Len(AsciiHigh)} |->
        IF \E i \in 1..Len(AsciiLow) : CharAt(AsciiLow, i) = c
        THEN 31 + CHOOSE i \in 1..Len(AsciiLow) : CharAt(AsciiLow, i) = c
        ELSE 96 + CHOOSE i \in 1..Len(AsciiHigh) : CharAt(AsciiHigh, i) = c]

\* ord(c) of an ASCII character
Ord(c) == OrdTable[c]

Chr(n) == IF n < 96 THEN CharAt(AsciiLow, n - 31) ELSE CharAt(AsciiHigh, n - 96)

Codes(s) == [i \in 1..Len(s) |-> Ord(CharAt(s, i))]

RECURSIVE Str(_)
Str(cs) == IF cs = <<>> THEN "" ELSE Chr(Head(cs)) \o Str(Tail(cs))

RECURSIVE Flatten(_)
Flatten(ss) == IF ss = <<>> THEN <<>> ELSE Head(ss) \o Flatten(Tail(ss))

Max2(a, b) == IF a >= b THEN a ELSE b

\* a local: x is computed once and Body is given its value
Let(x, Body(_)) == CHOOSE r \in {Body(v) : v \in {x}} : TRUE

(***************************************************************************)
(* _norm_key (operating on code points)                                    *)
(***************************************************************************)
\* str.strip(): the code points Python treats as whitespace
IsSpace(c) ==
    \/ c \in 9..13
    \/ c \in 28..32
    \/ c \in {133, 160, 5760, 8232, 8233, 8239, 8287, 12288}
    \/ c \in 8192..8202

RECURSIVE LStrip(_)
LStrip(cs) == IF cs # <<>> /\ IsSpace(Head(cs)) THEN LStrip(Tail(cs)) ELSE cs

RECURSIVE RStrip(_)
RStrip(cs) ==
    IF cs # <<>> /\ IsSpace(cs[Len(cs)]) THEN RStrip(SubSeq(cs, 1, Len(cs) - 1)) ELSE cs

Strip(cs) == RStrip(LStrip(cs))

\* s.replace(U+2019, "'").replace(back-tick, "'")
ReplaceApostrophes(cs) == [i \in 1..Len(cs) |-> IF cs[i] \in {8217, 96} THEN 39 ELSE cs[i]]

\* unicodedata.normalize("NFKD", c): the decompositions of the Latin-1 code
\* points (128..255); ASCII and the other code points the model uses
\* decompose to themselves
Decompose(c) ==
    CASE c = 160 -> <<32>>
      [] c = 168 -> <<32, 776>>
      [] c = 170 -> <<97>>
      [] c = 175 -> <<32, 772>>
      [] c = 178 -> <<50>>
      [] c = 179 -> <<51>>
      [] c = 180 -> <<32, 769>>
      [] c = 181 -> <<956>>
      [] c = 184 -> <<32, 807>>
      [] c = 185 -> <<49>>
      [] c = 186 -> <<111>>
      [] c = 188 -> <<49, 8260, 52>>
      [] c = 189 -> <<49, 8260, 50>>
      [] c = 190 -> <<51, 8260, 52>>
      [] c = 192 -> <<65, 768>>
      [] c = 193 -> <<65, 769>>
      [] c = 194 -> <<65, 770>>
      [] c = 195 -> <<65, 771>>
      [] c = 196 -> <<65, 776>>
      [] c = 197 -> <<65, 778>>
      [] c = 199 -> <<67, 807>>
      [] c = 200 -> <<69, 768>>
      [] c = 201 -> <<69, 769>>
      [] c = 202 -> <<69, 770>>
      [] c = 203 -> <<69, 776>>
      [] c = 204 -> <<73, 768>>
      [] c = 205 -> <<73, 769>>
      [] c = 206 -> <<73, 770>>
      [] c = 207 -> <<73, 776>>
      [] c = 209 -> <<78, 771>>
      [] c = 210 -> <<79, 768>>
      [] c = 211 -> <<79, 769>>
      [] c = 212 -> <<79, 770>>
      [] c = 213 -> <<79, 771>>
      [] c = 214 -> <<79, 776>>
      [] c = 217 -> <<85, 768>>
      [] c = 218 -> <<85, 769>>
      [] c = 219 -> <<85, 770>>
      [] c = 220 -> <<85, 776>>
      [] c = 221 -> <<89, 769>>
      [] c = 224 -> <<97, 768>>
      [] c = 225 -> <<97, 769>>
      [] c = 226 -> <<97, 770>>
      [] c = 227 -> <<97, 771>>
      [] c = 228 -> <<97, 776>>
      [] c = 229 -> <<97, 778>>
      [] c = 231 -> <<99, 807>>
      [] c = 232 -> <<101, 768>>
      [] c = 233 -> <<101, 769>>
      [] c = 234 -> <<101, 770>>
      [] c = 235 -> <<101, 776>>
      [] c = 236 -> <<105, 768>>
      [] c = 237 -> <<105, 769>>
      [] c = 238 -> <<105, 770>>
      [] c = 239 -> <<105, 776>>
      [] c = 241 -> <<110, 771>>
      [] c = 242 -> <<111, 768>>
      [] c = 243 -> <<111, 769>>
      [] c = 244 -> <<111, 770>>
      [] c = 245 -> <<111, 771>>
      [] c = 246 -> <<111, 776>>
      [] c = 249 -> <<117, 768>>
      [] c = 250 -> <<117, 769>>
      [] c = 251 -> <<117, 770>>
      [] c = 252 -> <<117, 776>>
      [] c = 253 -> <<121, 769>>
      [] c = 255 -> <<121, 776>>
      [] OTHER -> <<c>>

\* unicodedata.combining(c) != 0: the combining diacritical marks
IsCombining(c) == c \in 768..879

\* the text left as it is
KeepAccents(cs) == cs

_strip_accents(cs) ==
    LET d == Flatten([i \in 1..Len(cs) |-> Decompose(cs[i])])
    IN  SelectSeq(d, LAMBDA c : ~IsCombining(c))

\* str.lower() on the code points the model uses
Lower(c) ==
    IF c \in 65..90 THEN c + 32
    ELSE IF c \in 192..222 /\ c # 215 THEN c + 32
    ELSE c

\* the class [a-z0-9] with the space added to it
IsAlnumLowerOrSpace(c) == c \in 97..122 \/ c \in 48..57 \/ c = 32

\* re.sub(r"[^a-z0-9]+", "", s) keeps the code points of [a-z0-9]
IsAlnumLower(c) == c \in 97..122 \/ c \in 48..57

\* cs is a sequence of code points; None is modelled by the caller passing <<>>
_norm_key(cs) ==
    LET s1 == Strip(cs)
        s2 == ReplaceApostrophes(s1)
        s3 == _strip_accents(s2)
        s4 == [i \in 1..Len(s3) |-> Lower(s3[i])]
    IN  SelectSeq(s4, IsAlnumLower)

\* _norm_key(s) of an argument that is None (is_none) or the text cs
NormKeyOf(is_none, cs) == IF is_none THEN <<>> ELSE _norm_key(cs)

\* dict.get(k) followed by a truth test: a missing key and an empty value are alike
Get(d, k) == IF k \in DOMAIN d THEN d[k] ELSE ""

EmptyDict == [k \in {} |-> ""]

(***************************************************************************)
(* Module constants and the upstream documents                             *)
(***************************************************************************)
DD_CDN_BASE == "https://ddragon.leagueoflegends.com/cdn"

METATFT_CHAMPION_CDN_BASE == "https://cdn.metatft.com/file/metatft/champions/"

\* ITEM_ALIASES (the entries whose key is ASCII: the keys "Armure ronciere"
\* and "Redemption" written with their accents cannot be met by the ASCII
\* names of the model's inputs)
ITEM_ALIASES ==
    [k \in {"Archange", "Lame d'infini", "Pistolame Hextech", "Cape solaire",
            "Redemption", "Warmog", "Guinsoo", "Morello", "Rabadon", "BT",
            "Lame funeste", "Guardian Angel", "Thornmail"} |->
        CASE k = "Archange"          -> "Archangel's Staff"
          [] k = "Lame d'infini"     -> "Infinity Edge"
          [] k = "Pistolame Hextech" -> "Hextech Gunblade"
          [] k = "Cape solaire"      -> "Sunfire Cape"
          [] k = "Redemption"        -> "TFT_Item_Redemption"
          [] k = "Warmog"            -> "Warmog's Armor"
          [] k = "Guinsoo"           -> "Guinsoo's Rageblade"
          [] k = "Morello"           -> "Morellonomicon"
          [] k = "Rabadon"           -> "Rabadon's Deathcap"
          [] k = "BT"                -> "Bloodthirster"
          [] k = "Lame funeste"      -> "Deathblade"
          [] k = "Guardian Angel"    -> "TFT_Item_GuardianAngel"
          [] k = "Thornmail"         -> "TFT_Item_BrambleVest"]

\* the version Data Dragon's versions.json lists first
LatestVersion == "15.1.1"

\* versions[0] once the upstream has published its next version
NewerVersion == "15.2.1"

\* what dd_latest_version.txt holds when write_text(v) was cut short
TruncatedVersion == "15.1"

\* what an index file holds when write_text(json.dumps(idx)) was cut short:
\* a text json.loads rejects
TruncatedJson == "partial"

\* what an upstream can answer to a GET: the document ("good"), a JSON
\* document without the expected data ("nodata"), or no usable answer, which
\* makes requests.get(...).json() raise ("raise")
FetchAnswers == {"good", "nodata", "raise"}

\* tft-item.json, "data" entries
ItemDoc(answer) ==
    IF answer = "good"
    THEN << [id |-> "TFT_Item_Bloodthirster", name |-> "Bloodthirster",
             full |-> "TFT_Item_Bloodthirster.png"],
            [id |-> "TFT_Item_InfinityEdge", name |-> "Infinity Edge",
             full |-> "TFT_Item_InfinityEdge.png"],
            [id |-> "TFT_Item_RabadonsDeathcap", name |-> "Rabadon's Deathcap",
             full |-> "TFT_Item_RabadonsDeathcap.png"],
            [id |-> "TFT_Item_Redemption", name |-> "Spirit Visage",
             full |-> "TFT_Item_Redemption.png"],
            [id |-> "TFT5_Item_RedemptionRadiant", name |-> "Redemption",
             full |-> "TFT5_Item_RedemptionRadiant.png"] >>
    ELSE <<>>

\* tftchampions-teamplanner.json, the entries of its sets
TftDoc(answer) ==
    IF answer = "good"
    THEN << [display_name |-> "Ahri", character_id |-> "TFT16_Ahri"],
            [display_name |-> "Miss Fortune", character_id |-> "TFT16_MissFortune"] >>
    ELSE <<>>

\* champion.json, "data" entries
ChampionDoc(answer) ==
    IF answer = "good"
    THEN << [id |-> "Jinx", name |-> "Jinx"],
            [id |-> "Ahri", name |-> "Ahri"],
            [id |-> "MissFortune", name |-> "Miss Fortune"] >>
    ELSE <<>>

(***************************************************************************)
(* The names of the inputs                                                 *)
(***************************************************************************)
ChampOrder == <<"Ahri", "Jinx", "Lux", "Miss Fortune">>

ChampNames == {ChampOrder[i] : i \in 1..Len(ChampOrder)}

\* the champion entry of a composition for each name: Lux has no "stars" key
ChampEntry(n) ==
    CASE n = "Ahri" -> [name |-> "Ahri", stars |-> 2]
      [] n = "Jinx" -> [name |-> "Jinx", stars |-> 3]
      [] OTHER      -> [name |-> n]

SynNames == <<"Star Guardian", "Sniper", "Bruiser", "Sorcerer">>

\* champions_db where every item resolves against the item catalog (by alias,
\* exact key, surrounding blanks, fuzzy match, alias to an id); Lux is not in it
DbResolving ==
    [n \in {"Ahri", "Jinx", "Miss Fortune"} |->
        CASE n = "Ahri" -> [cost |-> 4, items |-> <<"Rabadon">>]
          [] n = "Jinx" -> [cost |-> 3, items |-> <<" BT ", "Infinty Edge", "Redemption">>]
          [] OTHER      -> [cost |-> 3, items |-> <<"Infinity Edge", "BT">>]]

\* champions_db with names no catalog has, an empty item name, a champion
\* without cost and one without items
DbNoisy ==
    [n \in {"Ahri", "Jinx", "Lux"} |->
        CASE n = "Ahri" -> [items |-> <<"Zzz">>]
          [] n = "Jinx" -> [cost |-> 2, items |-> <<"Infinity Edge", "", "Zzz">>]
          [] OTHER      -> [cost |-> 1]]

\* champions_db with a name no catalog has listed before one the catalog has
DbGapped == [n \in {"Ahri"} |-> [cost |-> 2, items |-> <<"Zzz", "Infinity Edge">>]]

Dbs == {DbResolving, DbNoisy, DbGapped}

(***************************************************************************)
(* The texts of the model's inputs and documents, and the text functions   *)
(* on them.  Each function is tabulated once over the texts the model      *)
(* meets and computed directly on any other text.                          *)
(***************************************************************************)
Range(f) == {f[x] : x \in DOMAIN f}

ItemNames ==
    UNION {UNION {IF "items" \in DOMAIN db[n] THEN Range(db[n].items) ELSE {}
                  : n \in DOMAIN db} : db \in Dbs}

DocTexts ==
    UNION {{it.id, it.name} : it \in Range(ItemDoc("good"))}
    \cup UNION {{e.display_name, e.character_id} : e \in Range(TftDoc("good"))}
    \cup UNION {{c.id, c.name} : c \in Range(ChampionDoc("good"))}

StrStripRaw(s) == Str(Strip(Codes(s)))

StrLowerRaw(s) == Str([i \in 1..Len(s) |-> Lower(Ord(CharAt(s, i)))])

NormStrRaw(s) == Str(_norm_key(Codes(s)))

InputTexts ==
    ItemNames \cup ChampNames \cup Range(SynNames) \cup DocTexts
    \cup {LatestVersion, TruncatedVersion, NewerVersion}

StrippedTexts == {StrStripRaw(t) : t \in InputTexts}

KnownTexts ==
    InputTexts \cup StrippedTexts \cup Range(ITEM_ALIASES)
    \cup {StrLowerRaw(t) : t \in StrippedTexts}

StripTable == [t \in KnownTexts |-> StrStripRaw(t)]

LowerTable == [t \in KnownTexts |-> StrLowerRaw(t)]

NormTable == [t \in KnownTexts |-> NormStrRaw(t)]

\* str.strip()
StrStrip(s) == IF s \in KnownTexts THEN StripTable[s] ELSE StrStripRaw(s)

\* str.lower()
StrLower(s) == IF s \in KnownTexts THEN LowerTable[s] ELSE StrLowerRaw(s)

\* _norm_key of an ASCII text, as a text
NormStr(s) == IF s \in KnownTexts THEN NormTable[s] ELSE NormStrRaw(s)

(***************************************************************************)
(* difflib.get_close_matches(word, possibilities, n=1, cutoff=0.88)        *)
(***************************************************************************)
RECURSIVE CommonLen(_, _, _, _)
\* length of the common run of a from i and b from j
CommonLen(a, b, i, j) ==
    IF i <= Len(a) /\ j <= Len(b) /\ CharAt(a, i) = CharAt(b, j)
    THEN 1 + CommonLen(a, b, i + 1, j + 1)
    ELSE 0

\* the length of the longest block a and b have in common
LongestCommon(a, b) ==
    IF Len(a) = 0 \/ Len(b) = 0 THEN 0
    ELSE CHOOSE k \in 0..Len(a) :
           /\ \E i \in 1..Len(a), j \in 1..Len(b) : CommonLen(a, b, i, j) = k
           /\ \A i \in 1..Len(a), j \in 1..Len(b) : CommonLen(a, b, i, j) <= k

Least(S) == CHOOSE x \in S : \A y \in S : x <= y

\* SequenceMatcher.find_longest_match without junk: <<i, j, k>>, the longest
\* block a[i..i+k-1] = b[j..j+k-1], earliest in a, then earliest in b
find_longest_match(a, b) ==
    Let(LongestCommon(a, b), LAMBDA best :
        IF best = 0 THEN <<1, 1, 0>>
        ELSE Let(Least({i \in 1..Len(a) : \E j \in 1..Len(b) : CommonLen(a, b, i, j) = best}),
                 LAMBDA i :
                     <<i, Least({j \in 1..Len(b) : CommonLen(a, b, i, j) = best}), best>>))

RECURSIVE MatchCount(_, _)
\* sum of the sizes of SequenceMatcher.get_matching_blocks()
MatchCount(a, b) ==
    IF Len(a) = 0 \/ Len(b) = 0 THEN 0
    ELSE Let(find_longest_match(a, b), LAMBDA m :
             IF m[3] = 0 THEN 0
             ELSE m[3] + MatchCount(SubSeq(a, 1, m[1] - 1), SubSeq(b, 1, m[2] - 1))
                       + MatchCount(SubSeq(a, m[1] + m[3], Len(a)),
                                    SubSeq(b, m[2] + m[3], Len(b))))

\* the cutoff 0.88 as a fraction
CutoffNum == 88

CutoffDen == 100

\* SequenceMatcher(a=x, b=word).ratio() >= cutoff, with ratio = 2*M/T (1.0 when T = 0)
RatioAtLeastCutoff(x, word) ==
    LET T == Len(x) + Len(word)
    IN  IF T = 0 THEN TRUE
        ELSE 2 * MatchCount(x, word) * CutoffDen >= CutoffNum * T

\* ratio(x, word) > ratio(y, word)
RatioGreater(x, y, word) ==
    (IF Len(x) + Len(word) = 0 THEN 1 ELSE 2 * MatchCount(x, word))
        * (IF Len(y) + Len(word) = 0 THEN 1 ELSE Len(y) + Len(word))
    > (IF Len(y) + Len(word) = 0 THEN 1 ELSE 2 * MatchCount(y, word))
        * (IF Len(x) + Len(word) = 0 THEN 1 ELSE Len(x) + Len(word))

RECURSIVE LexLess(_, _)
\* x < y for Python strs (code point order)
LexLess(x, y) ==
    IF Len(y) = 0 THEN FALSE
    ELSE IF Len(x) = 0 THEN TRUE
    ELSE IF Head(x) = Head(y) THEN LexLess(Tail(x), Tail(y))
    ELSE Ord(Head(x)) < Ord(Head(y))

\* the result list of get_close_matches with n=1: <<>> or <<best>>; the best
\* is the greatest (score, x) pair, as heapq.nlargest orders them
get_close_matches(word, possibilities) ==
    Let({x \in possibilities : RatioAtLeastCutoff(x, word)}, LAMBDA C :
        IF C = {} THEN <<>>
        ELSE <<CHOOSE x \in C :
                 \A y \in C \ {x} :
                     \/ RatioGreater(x, y, word)
                     \/ ~RatioGreater(y, x, word) /\ LexLess(y, x)>>)

(***************************************************************************)
(* Catalog cache: .cache/meta_tft                                          *)
(***************************************************************************)
VersionFile == "dd_latest_version.txt"

ChampionIndexFile(version) == "dd_champion_index_" \o version \o ".json"

\* TFT_SET_KEY is not set: cache_suffix = "ALL"
TftIndexFile == "tft_name_to_character_id_ALL.json"

ItemIndexFile(version) == "dd_tft_item_index_" \o version \o ".json"

CacheFiles ==
    {VersionFile, TftIndexFile, ChampionIndexFile(LatestVersion), ItemIndexFile(LatestVersion)}

\* no file of the cache exists
ColdCache == [f \in CacheFiles |-> ""]

RECURSIVE ChampionIdxOf(_)
\* the loop of _dd_lol_champion_index over the entries, later entries overwrite
ChampionIdxOf(doc) ==
    IF doc = <<>> THEN EmptyDict
    ELSE LET c    == doc[Len(doc)]
             rest == ChampionIdxOf(SubSeq(doc, 1, Len(doc) - 1))
         IN  (NormStr(c.name) :> c.id) @@ (NormStr(c.id) :> c.id) @@ rest

RECURSIVE TftIdxOf(_)
TftIdxOf(doc) ==
    IF doc = <<>> THEN EmptyDict
    ELSE LET e    == doc[Len(doc)]
             rest == TftIdxOf(SubSeq(doc, 1, Len(doc) - 1))
         IN  (NormStr(e.display_name) :> e.character_id) @@ rest

RECURSIVE ItemIdxOf(_)
ItemIdxOf(doc) ==
    IF doc = <<>> THEN EmptyDict
    ELSE LET it   == doc[Len(doc)]
             rest == ItemIdxOf(SubSeq(doc, 1, Len(doc) - 1))
         IN  (NormStr(it.id) :> it.full) @@ (NormStr(it.name) :> it.full) @@ rest

\* The content of an index file is json.dumps(idx) of the index built from the
\* answer named; these are the indexes json.loads gives back, built once.
IndexAnswers == {"good", "nodata"}

ItemIdx == [a \in IndexAnswers |-> ItemIdxOf(ItemDoc(a))]

TftIdx == [a \in IndexAnswers |-> TftIdxOf(TftDoc(a))]

ChampionIdx == [a \in IndexAnswers |-> ChampionIdxOf(ChampionDoc(a))]

\* The process state the resolver reads and changes, threaded through the calls:
\* cache (the files), logged (_MISSING_ITEMS_LOGGED), printed (stdout), and
\* raised (an exception is propagating).  net gives the answer of each
\* upstream to a GET made now; gets lists the files a GET was made for.
Raise(st) == [st EXCEPT !.raised = TRUE]

\* requests.get(...) of the document of file
Got(st, file) == [st EXCEPT !.gets = Append(@, file)]

\* the text of a cache file, "" when cache_path.exists() is false
FileText(files, file) == IF file \in DOMAIN files THEN files[file] ELSE ""

\* _dd_latest_version: <<version, state>>
_dd_latest_version(st, net) ==
    Let(StrStrip(FileText(st.cache, VersionFile)), LAMBDA v :
        IF v # "" THEN <<v, st>>
        ELSE IF net.version = "good"
             THEN <<st.latest,
                    [Got(st, VersionFile) EXCEPT !.cache[VersionFile] = st.latest]>>
             ELSE <<"", Raise(Got(st, VersionFile))>>)

\* the index loaders with "if cache_path.exists()" left out: always fetched
LoadIndex_Refetch(file, answer, st) ==
    IF answer = "raise"
    THEN <<"", Raise(Got(st, file))>>
    ELSE <<answer, [Got(st, file) EXCEPT !.cache[file] = answer]>>

\* the index loaders reading an existing cache file back as an empty mapping
LoadIndex_StaleRead(file, answer, st) ==
    IF FileText(st.cache, file) # ""
    THEN <<"nodata", st>>
    ELSE IF answer = "raise"
         THEN <<"", Raise(Got(st, file))>>
         ELSE <<answer, [Got(st, file) EXCEPT !.cache[file] = answer]>>

\* the common shape of the three index loaders: <<answer the index was built
\* from, state>>; json.loads raises on a file cut short
LoadIndex(file, answer, st) ==
    IF FileText(st.cache, file) = TruncatedJson
    THEN <<"", Raise(st)>>
    ELSE IF FileText(st.cache, file) # ""
    THEN <<FileText(st.cache, file), st>>
    ELSE IF answer = "raise"
         THEN <<"", Raise(Got(st, file))>>
         ELSE <<answer, [Got(st, file) EXCEPT !.cache[file] = answer]>>

\* the answer to the GET of a document of Data Dragon version: the CDN has no
\* document for a version that does not exist, and .json() raises
VersionedAnswer(version, answer) == IF version = LatestVersion THEN answer ELSE "raise"

_dd_lol_champion_index(version, st, net) ==
    Let(LoadIndex(ChampionIndexFile(version), VersionedAnswer(version, net.champion), st),
        LAMBDA r :
        IF r[2].raised THEN <<EmptyDict, r[2]>> ELSE <<ChampionIdx[r[1]], r[2]>>)

_tft_name_to_character_id(st, net) ==
    Let(LoadIndex(TftIndexFile, net.tft, st), LAMBDA r :
        IF r[2].raised THEN <<EmptyDict, r[2]>> ELSE <<TftIdx[r[1]], r[2]>>)

_dd_tft_item_index(version, st, net) ==
    Let(LoadIndex(ItemIndexFile(version), VersionedAnswer(version, net.item), st),
        LAMBDA r :
        IF r[2].raised THEN <<EmptyDict, r[2]>> ELSE <<ItemIdx[r[1]], r[2]>>)

(***************************************************************************)
(* Name resolution                                                         *)
(***************************************************************************)
\* idx.get(k), then the difflib fallback: the image file of a name, "" if none
FindFullRaw(idx, name) ==
    Let(NormStr(name), LAMBDA k :
        IF Get(idx, k) # "" THEN Get(idx, k)
        ELSE Let(get_close_matches(k, DOMAIN idx), LAMBDA matches :
                 IF matches # <<>> THEN Get(idx, matches[1]) ELSE ""))

\* FindFullRaw tabulated over the item indexes and the texts of the model
FullTable == [a \in IndexAnswers |-> [n \in KnownTexts |-> FindFullRaw(ItemIdx[a], n)]]

FindFull(idx, name) ==
    IF name \in KnownTexts /\ \E a \in IndexAnswers : ItemIdx[a] = idx
    THEN FullTable[CHOOSE a \in IndexAnswers : ItemIdx[a] = idx][name]
    ELSE FindFullRaw(idx, name)

\* line 260 without the add: the name is not remembered
RecordMissing_Forget(names, name) == names

\* line 260: _MISSING_ITEMS_LOGGED.add(name)
RecordMissing(names, name) == names \cup {name}

\* line 245 without the alias table: the name as given
AliasOf_Skip(name) == name

\* line 245: ITEM_ALIASES.get(name, name)
AliasOf(name) == IF name \in DOMAIN ITEM_ALIASES THEN ITEM_ALIASES[name] ELSE name

\* get_item_image_url: <<url, state>>.  Each printed diagnostic is recorded with
\* the argument of the call that printed it (literal) beside the name printed.
get_item_image_url(item_name, st, net) ==
    Let(StrStrip(item_name), LAMBDA stripped :
    IF stripped = "" THEN <<"", st>>
    ELSE
    Let(AliasOf(stripped), LAMBDA name :
    Let(_dd_latest_version(st, net), LAMBDA v :
    IF v[2].raised THEN <<"", v[2]>>
    ELSE
    Let(_dd_tft_item_index(v[1], v[2], net), LAMBDA x :
    IF x[2].raised THEN <<"", x[2]>>
    ELSE
    Let(FindFull(x[1], name), LAMBDA full :
    IF full = ""
    THEN IF name \notin x[2].logged
         THEN <<"", [x[2] EXCEPT !.logged = RecordMissing(@, name),
                                 !.printed = Append(@, [kind |-> "missing-item",
                                                        literal |-> item_name,
                                                        name |-> name])]>>
         ELSE <<"", x[2]>>
    ELSE <<DD_CDN_BASE \o "/" \o v[1] \o "/img/tft-item/" \o full, x[2]>>)))))

\* get_champion_image_url: <<url, state>>
get_champion_image_url(champion, st, net) ==
    Let(StrStrip(champion), LAMBDA champ :
    IF champ = "" THEN <<"", st>>
    ELSE
    Let(_tft_name_to_character_id(st, net), LAMBDA t :
    IF t[2].raised THEN <<"", t[2]>>
    ELSE
    Let(Get(t[1], NormStr(champ)), LAMBDA cid :
    IF cid # "" THEN <<METATFT_CHAMPION_CDN_BASE \o StrLower(cid) \o ".png", t[2]>>
    ELSE
    Let(_dd_latest_version(t[2], net), LAMBDA v :
    IF v[2].raised THEN <<"", v[2]>>
    ELSE
    Let(_dd_lol_champion_index(v[1], v[2], net), LAMBDA d :
    IF d[2].raised THEN <<"", d[2]>>
    ELSE
    Let(Get(d[1], NormStr(champ)), LAMBDA champ_id :
    IF champ_id # ""
    THEN <<DD_CDN_BASE \o "/" \o v[1] \o "/img/champion/" \o champ_id \o ".png", d[2]>>
    ELSE <<"", d[2]>>))))))

get_synergy_image_url(synergy_name) ==
    Let(StrLower(StrStrip(synergy_name)), LAMBDA name :
        IF name = "" THEN ""
        ELSE "https://cdn.metatft.com/file/metatft/traits/" \o NormStr(name) \o ".png")

\* create_image_formula; size = 0 stands for None
create_image_formula(url, size) ==
    IF size # 0
    THEN "=IMAGE(\"" \o url \o "\"; 4; " \o ToString(size) \o "; " \o ToString(size) \o ")"
    ELSE "=IMAGE(\"" \o url \o "\")"

(***************************************************************************)
(* update_google_sheet: the layout                                         *)
(***************************************************************************)
col_classement == 1

col_compo == 2

col_early == 3

col_carries == 4

col_synergies == 5

col_champions_start == 6

\* entry.get(key, default)
EntryGet(entry, key, default) == IF key \in DOMAIN entry THEN entry[key] ELSE default

RECURSIVE MaxOf(_, _)
\* max(values, default=d) over a sequence of numbers
MaxOf(values, d) ==
    IF values = <<>> THEN d
    ELSE IF Len(values) = 1 THEN values[1]
    ELSE Max2(values[1], MaxOf(Tail(values), d))

\* line 384 without the data: the floor alone
max_champs_floor_only(meta, floor) == floor

\* lines 382-384: max_champs
max_champs_of(meta, floor) ==
    LET max_champs_data ==
            MaxOf([i \in 1..Len(meta) |-> Len(EntryGet(meta[i], "champions", <<>>))], 0)
    IN  Max2(max_champs_data, floor)

total_cols_of(meta, floor) == col_champions_start + max_champs_of(meta, floor) - 1

BlankRow(total_cols) == [i \in 1..total_cols |-> ""]

header_of(total_cols) ==
    [BlankRow(total_cols) EXCEPT ![col_classement] = "Classement meta",
                                 ![col_compo] = "Compo",
                                 ![col_early] = "Early a chercher",
                                 ![col_carries] = "Carries",
                                 ![col_synergies] = "Synergies",
                                 ![col_champions_start] = "Champions / Items preferes"]

\* the record appended to enriched_champs for the champion entry c
Enrich(c, db) ==
    LET db_info == IF c.name \in DOMAIN db THEN db[c.name] ELSE EmptyDict
    IN  [name  |-> c.name,
         cost  |-> IF "cost" \in DOMAIN db_info THEN db_info.cost ELSE 1,
         stars |-> IF "stars" \in DOMAIN c THEN c.stars ELSE 2,
         items |-> IF "items" \in DOMAIN db_info THEN db_info.items ELSE <<>>]

RECURSIVE InsertByCost(_, _)
\* c put after every element of the sorted list whose cost is not greater
InsertByCost(sorted, c) ==
    IF sorted = <<>> THEN <<c>>
    ELSE IF sorted[Len(sorted)].cost <= c.cost THEN Append(sorted, c)
    ELSE Append(InsertByCost(SubSeq(sorted, 1, Len(sorted) - 1), c), sorted[Len(sorted)])

\* line 424 left out: the order of meta.yaml
SortByCost_Unsorted(champs) == champs

RECURSIVE SortByCost(_)
\* list.sort(key=cost): ascending and stable
SortByCost(champs) ==
    IF champs = <<>> THEN <<>>
    ELSE InsertByCost(SortByCost(SubSeq(champs, 1, Len(champs) - 1)), champs[Len(champs)])

\* enriched_champs of an entry: enriched, sorted by cost, cut to max_champs
enriched_champs_of(entry, db, max_champs) ==
    Let(EntryGet(entry, "champions", <<>>), LAMBDA champions_data :
    Let(SortByCost([i \in 1..Len(champions_data) |-> Enrich(champions_data[i], db)]),
        LAMBDA sorted :
            SubSeq(sorted, 1, IF Len(sorted) < max_champs THEN Len(sorted) ELSE max_champs)))

max_items_in_comp(champs) == MaxOf([i \in 1..Len(champs) |-> Len(champs[i].items)], 0)

\* line 436 without the synergies
block_height_items_only(champs, synergies_list) == 2 + max_items_in_comp(champs)

\* line 436 with the two champion rows only when there are champions
block_height_no_champion_rows(champs, synergies_list) ==
    Max2((IF champs = <<>> THEN 0 ELSE 2) + max_items_in_comp(champs),
         Len(synergies_list) * 2)

\* line 436: block_height
block_height_of(champs, synergies_list) ==
    Max2(2 + max_items_in_comp(champs), Len(synergies_list) * 2)

Stars(n) == [i \in 1..n |-> "*"]

RECURSIVE Join(_)
Join(ss) == IF ss = <<>> THEN "" ELSE Head(ss) \o Join(Tail(ss))

\* f"{name}\n{stars}", one glyph per star (the glyph is written "*")
name_display(c) == c.name \o "\n" \o Join(Stars(c.stars))

SynergyCell(synergy_name) ==
    Let(get_synergy_image_url(synergy_name), LAMBDA s_url :
        IF s_url # "" THEN create_image_formula(s_url, 40) ELSE "")

RECURSIVE Portraits(_, _, _, _, _)
\* the loop "Portraits champions" from champion idx on: <<row_image, state>>
Portraits(champs, idx, row, st, net) ==
    IF idx > Len(champs) THEN <<row, st>>
    ELSE Let(get_champion_image_url(champs[idx].name, st, net), LAMBDA u :
             IF u[2].raised THEN <<row, u[2]>>
             ELSE Portraits(champs, idx + 1,
                            IF u[1] # ""
                            THEN [row EXCEPT ![col_champions_start - 1 + idx] =
                                                 create_image_formula(u[1], 0)]
                            ELSE row,
                            u[2], net))

RECURSIVE ItemCells(_, _, _, _, _, _)
\* the loop "Items champions" of extra row r (0-based) from champion idx on
ItemCells(champs, idx, r, row, st, net) ==
    IF idx > Len(champs) THEN <<row, st>>
    ELSE IF r < Len(champs[idx].items)
    THEN Let(get_item_image_url(champs[idx].items[r + 1], st, net), LAMBDA u :
             IF u[2].raised THEN <<row, u[2]>>
             ELSE ItemCells(champs, idx + 1, r,
                            IF u[1] # ""
                            THEN [row EXCEPT ![col_champions_start - 1 + idx] =
                                                 create_image_formula(u[1], 0)]
                            ELSE row,
                            u[2], net))
    ELSE ItemCells(champs, idx + 1, r, row, st, net)

\* the same with one synergy per extra row: no label rows
SynergyExtraRow_IconsOnly(synergies_list, r, total_cols) ==
    IF r + 1 < Len(synergies_list)
    THEN [BlankRow(total_cols) EXCEPT ![col_synergies] = SynergyCell(synergies_list[r + 2])]
    ELSE BlankRow(total_cols)

\* row_extra of extra row r before the item cells: the later synergies
SynergyExtraRow(synergies_list, r, total_cols) ==
    LET syn_idx == (r + 2) \div 2
        is_nom  == (r % 2 = 1)
    IN  IF syn_idx < Len(synergies_list)
        THEN [BlankRow(total_cols) EXCEPT ![col_synergies] =
                 IF is_nom THEN synergies_list[syn_idx + 1]
                 ELSE SynergyCell(synergies_list[syn_idx + 1])]
        ELSE BlankRow(total_cols)

RECURSIVE ExtraRows(_, _, _, _, _, _, _, _)
\* the loop over range(block_height - 2) from r on: <<rows appended, state>>
ExtraRows(champs, synergies_list, r, block_height, total_cols, acc, st, net) ==
    IF r >= block_height - 2 THEN <<acc, st>>
    ELSE Let(ItemCells(champs, 1, r, SynergyExtraRow(synergies_list, r, total_cols), st, net),
             LAMBDA x :
                 IF x[2].raised THEN <<acc, x[2]>>
                 ELSE ExtraRows(champs, synergies_list, r + 1, block_height, total_cols,
                                Append(acc, x[1]), x[2], net))

\* lines 439-447: row_image before the portraits
row_image_of(entry, synergies_list, total_cols) ==
    [BlankRow(total_cols) EXCEPT
        ![col_classement] = EntryGet(entry, "classement", ""),
        ![col_compo]      = EntryGet(entry, "compo", ""),
        ![col_early]      = EntryGet(entry, "early_chercher", ""),
        ![col_carries]    = EntryGet(entry, "carries", ""),
        ![col_synergies]  = IF synergies_list # <<>>
                            THEN SynergyCell(synergies_list[1]) ELSE ""]

\* lines 456-463: row_names
row_names_of(champs, synergies_list, total_cols) ==
    [i \in 1..total_cols |->
        IF i >= col_champions_start /\ i - col_champions_start + 1 <= Len(champs)
        THEN name_display(champs[i - col_champions_start + 1])
        ELSE IF i = col_synergies /\ synergies_list # <<>> THEN synergies_list[1]
        ELSE ""]

\* One iteration of "for entry in meta_list":
\* [rows, height, champs, st], st.raised when a catalog fetch raised
BuildEntry(entry, db, max_champs, total_cols, st, net) ==
    Let(enriched_champs_of(entry, db, max_champs), LAMBDA champs :
    Let(EntryGet(entry, "synergies", <<>>), LAMBDA synergies_list :
    Let(block_height_of(champs, synergies_list), LAMBDA block_height :
    Let(Portraits(champs, 1, row_image_of(entry, synergies_list, total_cols), st, net),
        LAMBDA p :
    IF p[2].raised
    THEN [rows |-> <<>>, height |-> block_height, champs |-> champs, st |-> p[2]]
    ELSE
    Let(ExtraRows(champs, synergies_list, 0, block_height, total_cols,
                  <<p[1], row_names_of(champs, synergies_list, total_cols)>>, p[2], net),
        LAMBDA x :
            [rows |-> x[1], height |-> block_height, champs |-> champs, st |-> x[2]])))))

(***************************************************************************)
(* update_google_sheet: the merge and unmerge instructions of the          *)
(* batchUpdate, in the order they are appended to "requests".  The styling  *)
(* and sizing instructions between them (repeatCell, updateBorders,         *)
(* updateDimensionProperties, updateSheetProperties) are not recorded.      *)
(***************************************************************************)
Req(kind, sr, er, sc, ec) ==
    [kind |-> kind, startRowIndex |-> sr, endRowIndex |-> er,
     startColumnIndex |-> sc, endColumnIndex |-> ec]

\* the same two instructions with the header merge first
HeadRequests_MergeFirst(needed_rows, total_cols) ==
    << Req("mergeCells", 0, 1, col_champions_start - 1, total_cols),
       Req("unmergeCells", 0, Max2(needed_rows, 1000), 0, Max2(total_cols, 26)) >>

\* lines 560-572 and 607-619: the unmerge of the used zone, the header merge
HeadRequests(needed_rows, total_cols) ==
    << Req("unmergeCells", 0, Max2(needed_rows, 1000), 0, Max2(total_cols, 26)),
       Req("mergeCells", 0, 1, col_champions_start - 1, total_cols) >>

\* lines 895-908 with range(0, 5): the synergies column merged as well
MergeRequests_AtoE(row_start, height) ==
    [col_idx1 \in 1..5 |->
        Req("mergeCells", row_start - 1, row_start - 1 + height, col_idx1 - 1, col_idx1)]

\* lines 895-908, "Merge vertical A..D for the block": for col_idx in range(0, 4)
MergeRequests(row_start, height) ==
    [col_idx1 \in 1..4 |->
        Req("mergeCells", row_start - 1, row_start - 1 + height, col_idx1 - 1, col_idx1)]

\* the merges of one block (row_start, height, enriched_champs)
BlockRequests(b) == MergeRequests(b[1], b[2])

\* the merge and unmerge instructions of "requests"
AllRequests(blks, needed_rows, total_cols) ==
    HeadRequests(needed_rows, total_cols)
    \o Flatten([i \in 1..Len(blks) |-> BlockRequests(blks[i])])

(***************************************************************************)
(* Inputs                                                                  *)
(***************************************************************************)
\* at most this many compositions in data["meta"]
MaxComps == 2

\* at most this many champions in a composition
MaxChampsPerComp == 3

\* at most this many synergies in a composition
MaxSyn == 2

\* at most this many direct calls of the resolver in one process
MaxCalls == 3

\* champion lists: the sequences of distinct names
ChampSeqs ==
    UNION {{q \in [1..n -> ChampNames] : \A i, j \in 1..n : i # j => q[i] # q[j]}
           : n \in 0..MaxChampsPerComp}

\* champion lists: the first names of ChampOrder
ChampPrefixes ==
    {SubSeq(ChampOrder, 1, n) : n \in {m \in 0..MaxChampsPerComp : m <= Len(ChampOrder)}}

SynCounts == {n \in 0..MaxSyn : n <= Len(SynNames)}

\* the entry of data["meta"] with the champions q and the first n synergies
CompOf(q, n) ==
    [classement |-> "S", compo |-> "Comp", early_chercher |-> "Early", carries |-> "Carry",
     synergies |-> [i \in 1..n |-> SynNames[i]],
     champions |-> [i \in 1..Len(q) |-> ChampEntry(q[i])]]

Comps == {CompOf(q, n) : q \in ChampSeqs, n \in SynCounts}

\* the stacked compositions have no synergy or as many as can be
StackComps == {CompOf(q, n) : q \in ChampPrefixes, n \in {0, MaxSyn} \cap SynCounts}

\* values of META_MIN_CHAMPIONS (the default is 8): below the larger compositions
FloorValues == {1, 2}

\* the answers of the upstreams to the GETs of one step
Nets == [version : {"good", "raise"}, tft : FetchAnswers, champion : FetchAnswers,
         item : FetchAnswers]

\* the same, every upstream either serving its document or failing
NetsUpOrDown == {net \in Nets : \A k \in DOMAIN net : net[k] \in {"good", "raise"}}

(***************************************************************************)
(* The run                                                                 *)
(***************************************************************************)
\* no earlier run
NoRun ==
    [ran |-> FALSE, rows |-> <<>>, blocks |-> <<>>, files |-> ColdCache,
     start_files |-> ColdCache, start_logged |-> {}, requests |-> <<>>]

\* the process before update_google_sheet, with data loaded from meta.yaml
Start(metas) ==
    /\ pc = "start"
    /\ meta_list \in metas
    /\ champions_db \in Dbs
    /\ floor_env \in FloorValues
    /\ all_rows = <<>>
    /\ blocks = <<>>
    /\ current_row = 0
    /\ cache = ColdCache
    /\ logged = {}
    /\ printed = <<>>
    /\ worksheet = "old"
    /\ requests = <<>>
    /\ resolved = <<>>
    /\ avg_place = 0
    /\ classement = ""
    /\ normed = <<>>
    /\ previous = NoRun
    /\ upstream = LatestVersion
    /\ asked = <<>>
    /\ all_divs = <<>>
    /\ comps = <<>>
    /\ final_meta = <<>>

\* several compositions stacked
Init == Start(UNION {[1..n -> StackComps] : n \in 0..MaxComps})

\* one composition, any champion list
InitBlock == Start({<<c>> : c \in Comps})

max_champs == max_champs_of(meta_list, floor_env)

total_cols == total_cols_of(meta_list, floor_env)

\* lines 372-407: the worksheet is cleared, the header row is built
Clear ==
    /\ pc = "start"
    /\ pc' = "loop"
    /\ worksheet' = "cleared"
    /\ all_rows' = <<header_of(total_cols)>>
    /\ blocks' = <<>>
    /\ current_row' = 2
    /\ UNCHANGED <<meta_list, champions_db, floor_env, cache, logged, printed, requests,
                   resolved, avg_place, classement,
                   normed, previous, aside>>

\* a GET is made only for a file the cache lacks: the other answers are not asked for
NetAsked(net) ==
    /\ cache[VersionFile] # "" => net.version = "good"
    /\ cache[TftIndexFile] # "" => net.tft = "good"
    /\ cache[ChampionIndexFile(LatestVersion)] # "" => net.champion = "good"
    /\ cache[ItemIndexFile(LatestVersion)] # "" => net.item = "good"

\* line 492 with a gap of one row between the blocks
NextRow_Gap(row, block_height) == row + block_height + 1

\* line 492: current_row += block_height
NextRow(row, block_height) == row + block_height

\* lines 408-492, one iteration, the upstreams answering as net; an exception
\* leaves through lines 980-982
BuildBlockWith(net) ==
    /\ pc = "loop"
    /\ Len(blocks) < Len(meta_list)
    /\ NetAsked(net)
    /\ \E b \in {BuildEntry(meta_list[Len(blocks) + 1], champions_db, max_champs, total_cols,
                             [cache |-> cache, logged |-> logged, printed |-> printed,
                              raised |-> FALSE, gets |-> <<>>, latest |-> upstream], net)} :
           /\ cache' = b.st.cache
           /\ logged' = b.st.logged
           /\ printed' = IF b.st.raised
                         THEN Append(b.st.printed, [kind |-> "error"])
                         ELSE b.st.printed
           /\ IF b.st.raised
              THEN /\ pc' = "failed"
                   /\ UNCHANGED <<all_rows, blocks, current_row>>
              ELSE /\ pc' = "loop"
                   /\ all_rows' = all_rows \o b.rows
                   /\ blocks' = Append(blocks, <<current_row, b.height, b.champs>>)
                   /\ current_row' = NextRow(current_row, b.height)
    /\ UNCHANGED <<meta_list, champions_db, floor_env, worksheet, requests,
                   resolved, avg_place, classement,
                   normed, previous, aside>>

BuildBlock == \E net \in NetsUpOrDown : BuildBlockWith(net)

BuildBlockAnyNet == \E net \in Nets : BuildBlockWith(net)

\* line 532: worksheet.update(range_name="A1", values=all_rows)
WriteRows ==
    /\ pc = "loop"
    /\ Len(blocks) = Len(meta_list)
    /\ pc' = "format"
    /\ worksheet' = "written"
    /\ UNCHANGED <<meta_list, champions_db, floor_env, all_rows, blocks, current_row,
                   cache, logged, printed, requests, resolved, avg_place, classement,
                   normed, previous, aside>>

\* lines 977-978: the two lines printed when the sheet is updated
SuccessLines(n) == <<[kind |-> "success"], [kind |-> "count", count |-> n]>>

\* lines 535-978: the instructions are built and sent in one batchUpdate,
\* the success is printed
Format ==
    /\ pc = "format"
    /\ pc' = "done"
    /\ requests' = AllRequests(blocks, Len(all_rows), total_cols)
    /\ printed' = printed \o SuccessLines(Len(meta_list))
    /\ UNCHANGED <<meta_list, champions_db, floor_env, all_rows, blocks, current_row,
                   cache, logged, worksheet, resolved, avg_place, classement,
                   normed, previous, aside>>

Next == Clear \/ BuildBlock \/ WriteRows \/ Format

Spec == Init /\ [][Next]_vars

NextBlock == Clear \/ BuildBlockAnyNet \/ WriteRows \/ Format

SpecBlock == InitBlock /\ [][NextBlock]_vars

(***************************************************************************)
(* Two runs of update_google_sheet over the same data, the upstreams       *)
(* serving the second run the documents they served the first.             *)
(***************************************************************************)
\* the upstreams answer a GET as they did in the earlier run
SameCatalogs(net) ==
    /\ previous.files[VersionFile] # "" => net.version = "good"
    /\ previous.files[TftIndexFile] # "" => net.tft = previous.files[TftIndexFile]
    /\ previous.files[ChampionIndexFile(LatestVersion)] # "" =>
           net.champion = previous.files[ChampionIndexFile(LatestVersion)]
    /\ previous.files[ItemIndexFile(LatestVersion)] # "" =>
           net.item = previous.files[ItemIndexFile(LatestVersion)]

BuildBlockSameCatalogs == \E net \in NetsUpOrDown : SameCatalogs(net) /\ BuildBlockWith(net)

\* what is left of the cache files: each one kept or deleted
CachesWithin(files) == {c \in [CacheFiles -> Range(files) \cup {""}] :
                           \A f \in CacheFiles : c[f] \in {"", files[f]}}

\* update_google_sheet is called again on the same data: in the same process
\* (_MISSING_ITEMS_LOGGED as it is) or in a new one (empty), over the cache
\* directory as it is or with files deleted
Rerun ==
    /\ pc = "done"
    /\ ~previous.ran
    /\ pc' = "start"
    /\ \E files \in CachesWithin(cache), names \in {logged, {}} :
          /\ cache' = files
          /\ logged' = names
          /\ previous' = [ran |-> TRUE, rows |-> all_rows, blocks |-> blocks,
                          files |-> cache, start_files |-> files, start_logged |-> names,
                          requests |-> requests]
    /\ printed' = <<>>
    /\ all_rows' = <<>>
    /\ blocks' = <<>>
    /\ current_row' = 0
    /\ requests' = <<>>
    /\ UNCHANGED <<meta_list, champions_db, floor_env, worksheet, resolved, avg_place,
                   classement, normed, aside>>

NextTwice == Clear \/ BuildBlockSameCatalogs \/ WriteRows \/ Format \/ Rerun

SpecTwice == Init /\ [][NextTwice]_vars

(***************************************************************************)
(* Direct calls of the item resolver in one process                        *)
(***************************************************************************)
\* a process that only resolves item names, its cache cold
InitResolve ==
    /\ pc = "resolving"
    /\ meta_list = <<>>
    /\ champions_db \in Dbs
    /\ floor_env \in FloorValues
    /\ all_rows = <<>>
    /\ blocks = <<>>
    /\ current_row = 0
    /\ cache = ColdCache
    /\ logged = {}
    /\ printed = <<>>
    /\ worksheet = "old"
    /\ requests = <<>>
    /\ resolved = <<>>
    /\ avg_place = 0
    /\ classement = ""
    /\ normed = <<>>
    /\ previous = NoRun
    /\ upstream = LatestVersion
    /\ asked = <<>>
    /\ all_divs = <<>>
    /\ comps = <<>>
    /\ final_meta = <<>>

\* one call get_item_image_url(item_name) with an item name of champions_db;
\* its result is added to the history
ResolveItem ==
    /\ pc = "resolving"
    /\ Len(resolved) < MaxCalls
    /\ \E item_name \in ItemNames, net \in Nets :
          /\ NetAsked(net)
          /\ \E u \in {get_item_image_url(item_name,
                                           [cache |-> cache, logged |-> logged,
                                            printed |-> printed, raised |-> FALSE,
                                            gets |-> <<>>, latest |-> upstream], net)} :
                /\ cache' = u[2].cache
                /\ logged' = u[2].logged
                /\ printed' = u[2].printed
                /\ pc' = IF u[2].raised THEN "failed" ELSE "resolving"
                /\ resolved' = Append(resolved,
                                      [literal |-> item_name, url |-> u[1],
                                       raised  |-> u[2].raised,
                                       emitted |-> Len(u[2].printed) - Len(printed),
                                       gets    |-> u[2].gets,
                                       files   |-> u[2].cache])
    /\ UNCHANGED <<meta_list, champions_db, floor_env, all_rows, blocks, current_row,
                   worksheet, requests, avg_place, classement,
                   normed, previous, aside>>

NextResolve == ResolveItem

SpecResolve == InitResolve /\ [][NextResolve]_vars

(***************************************************************************)
(* Direct calls of _norm_key: a first call on any text of the pool (or on  *)
(* None), then one more call, on the key the first call returned or on a   *)
(* text one character away from the first argument.                        *)
(***************************************************************************)
MaxLen == 3

\* code points of the texts: E, e, E acute, e acute, space, hyphen, U+2019
NormAlphabet == {69, 101, 201, 233, 32, 45, 8217}

Texts == UNION {[1..k -> NormAlphabet] : k \in 0..MaxLen}

\* the texts of the pool one substitution, deletion or insertion away from cs
Edits(cs) ==
    {[cs EXCEPT ![p] = c] : p \in 1..Len(cs), c \in NormAlphabet}
    \cup {SubSeq(cs, 1, p - 1) \o SubSeq(cs, p + 1, Len(cs)) : p \in 1..Len(cs)}
    \cup (IF Len(cs) < MaxLen
          THEN {SubSeq(cs, 1, p) \o <<c>> \o SubSeq(cs, p + 1, Len(cs)) :
                    p \in 0..Len(cs), c \in NormAlphabet}
          ELSE {})

InitNorm ==
    /\ InitResolve
    /\ champions_db = DbResolving
    /\ floor_env = CHOOSE f \in FloorValues : \A g \in FloorValues : f <= g

NormCall(is_none, cs, origin) ==
    /\ normed' = Append(normed, [none |-> is_none, arg |-> cs, origin |-> origin,
                                 key |-> NormKeyOf(is_none, cs)])
    /\ UNCHANGED <<pc, meta_list, champions_db, floor_env, all_rows, blocks, current_row,
                   cache, logged, printed, worksheet, requests, resolved, avg_place,
                   classement, previous, aside>>

\* the first call: _norm_key(None) or _norm_key(text)
NormKey ==
    /\ normed = <<>>
    /\ \/ NormCall(TRUE, <<>>, "first")
       \/ \E cs \in Texts : NormCall(FALSE, cs, "first")

\* _norm_key(_norm_key(text))
NormKeyAgain ==
    /\ normed # <<>> /\ Tail(normed) = <<>>
    /\ NormCall(FALSE, normed[1].key, "key")

\* _norm_key of a text one character away from the first one
NormKeyNear ==
    /\ normed # <<>> /\ Tail(normed) = <<>>
    /\ ~normed[1].none
    /\ \E cs \in Edits(normed[1].arg) : NormCall(FALSE, cs, "near")

NextNorm == NormKey \/ NormKeyAgain \/ NormKeyNear

SpecNorm == InitNorm /\ [][NextNorm]_vars

(***************************************************************************)
(* Calls of the version provider, process after process over one cache     *)
(* directory, while the upstream publishes a new version.                   *)
(***************************************************************************)
\* at most this many processes
MaxRuns == 2

\* a process starts: _MISSING_ITEMS_LOGGED is empty, the cache files stay
NewProcess ==
    /\ pc \in {"resolving", "failed"}
    /\ Len(asked) < MaxRuns
    /\ pc' = "resolving"
    /\ asked' = Append(asked, <<>>)
    /\ logged' = {}
    /\ printed' = <<>>
    /\ UNCHANGED <<meta_list, champions_db, floor_env, all_rows, blocks, current_row,
                   cache, worksheet, requests, resolved, avg_place, classement,
                   normed, previous, upstream, all_divs, comps, final_meta>>

\* the upstream publishes its next version
Release ==
    /\ upstream = LatestVersion
    /\ upstream' = NewerVersion
    /\ UNCHANGED <<pc, meta_list, champions_db, floor_env, all_rows, blocks, current_row,
                   cache, logged, printed, worksheet, requests, resolved, avg_place,
                   classement, normed, previous, asked, all_divs, comps, final_meta>>

\* one call _dd_latest_version() of the running process, the GET of
\* versions.json answered or failing; an exception ends the process
AskVersion ==
    /\ pc = "resolving"
    /\ asked # <<>>
    /\ Len(asked[Len(asked)]) < MaxCalls
    /\ \E answer \in {"good", "raise"} :
          \E v \in {_dd_latest_version(
                        [cache |-> cache, logged |-> logged, printed |-> printed,
                         raised |-> FALSE, gets |-> <<>>, latest |-> upstream],
                        [version |-> answer, tft |-> "good", champion |-> "good",
                         item |-> "good"])} :
              /\ cache' = v[2].cache
              /\ pc' = IF v[2].raised THEN "failed" ELSE "resolving"
              /\ asked' = [asked EXCEPT ![Len(asked)] =
                               Append(@, [id |-> v[1], current |-> upstream,
                                          raised |-> v[2].raised, gets |-> v[2].gets])]
    /\ UNCHANGED <<meta_list, champions_db, floor_env, all_rows, blocks, current_row,
                   logged, printed, worksheet, requests, resolved, avg_place, classement,
                   normed, previous, upstream, all_divs, comps, final_meta>>

\* no process yet, the cache directory empty; the provider reads neither the
\* champions data nor the floor
InitVersions ==
    /\ InitResolve
    /\ champions_db = DbResolving
    /\ floor_env = CHOOSE f \in FloorValues : \A g \in FloorValues : f <= g

NextVersions == NewProcess \/ Release \/ AskVersion

SpecVersions == InitVersions /\ [][NextVersions]_vars

(***************************************************************************)
(* Runs of the resolver over one cache directory: a process can be killed *)
(* while it writes a cache file, and a new process starts on the files the *)
(* earlier ones left.                                                      *)
(***************************************************************************)
\* The process is killed inside cache_path.write_text(...) of a call that
\* fetched a document: write_text opens the cache file itself for writing,
\* so the file is left with the beginning of its text.  The item index is
\* written after the version file.
CrashInPersist ==
    /\ pc = "resolving"
    /\ \/ /\ cache[VersionFile] = ""
          /\ cache' = [cache EXCEPT ![VersionFile] = TruncatedVersion]
       \/ /\ cache[VersionFile] \in {"", LatestVersion}
          /\ cache[ItemIndexFile(LatestVersion)] = ""
          /\ cache' = [cache EXCEPT ![VersionFile] = LatestVersion,
                                    ![ItemIndexFile(LatestVersion)] = TruncatedJson]
    /\ pc' = "crashed"
    /\ UNCHANGED <<meta_list, champions_db, floor_env, all_rows, blocks, current_row,
                   logged, printed, worksheet, requests, resolved, avg_place, classement,
                   normed, previous, aside>>

\* a new process: _MISSING_ITEMS_LOGGED is empty again, the cache files stay
NewRun ==
    /\ pc \in {"resolving", "failed", "crashed"}
    /\ pc' = "resolving"
    /\ logged' = {}
    /\ printed' = <<>>
    /\ UNCHANGED <<meta_list, champions_db, floor_env, all_rows, blocks, current_row,
                   cache, worksheet, requests, resolved, avg_place, classement,
                   normed, previous, aside>>

\* the first process on a cold cache; the resolver reads neither the
\* champions data nor the floor, so one value of each is enough
InitRuns ==
    /\ InitResolve
    /\ champions_db = DbResolving
    /\ floor_env = CHOOSE f \in FloorValues : \A g \in FloorValues : f <= g

NextRuns == ResolveItem \/ CrashInPersist \/ NewRun

SpecRuns == InitRuns /\ [][NextRuns]_vars

(***************************************************************************)
(* scrape_meta: the tier of a composition from its avg_place                *)
(***************************************************************************)
\* avg_place values of the model, in thousandths: 4.100 to 4.500
PlaceMin == 4100

PlaceMax == 4500

\* The table of the prompt (instruction 1).  The lines "a - b" name both ends:
\* an avg_place equal to an end is admitted by each line that names it.
TiersFor(place) ==
    {t \in {"S+", "S", "A+", "A", "B"} :
        \/ t = "S+" /\ place < 4150
        \/ t = "S"  /\ 4150 <= place /\ place <= 4250
        \/ t = "A+" /\ 4250 <= place /\ place <= 4350
        \/ t = "A"  /\ 4350 <= place /\ place <= 4450
        \/ t = "B"  /\ place > 4450}

\* a composition scraped with its avg_place, not yet classified
InitTier ==
    /\ pc = "scraped"
    /\ avg_place \in PlaceMin..PlaceMax
    /\ classement = ""
    /\ normed = <<>>
    /\ previous = NoRun
    /\ upstream = LatestVersion
    /\ asked = <<>>
    /\ all_divs = <<>>
    /\ comps = <<>>
    /\ final_meta = <<>>
    /\ meta_list = <<>>
    /\ champions_db = DbResolving
    /\ floor_env = 1
    /\ all_rows = <<>>
    /\ blocks = <<>>
    /\ current_row = 0
    /\ cache = ColdCache
    /\ logged = {}
    /\ printed = <<>>
    /\ worksheet = "old"
    /\ requests = <<>>
    /\ resolved = <<>>

\* the classement of the YAML entry is a tier the table admits for avg_place
Classify ==
    /\ pc = "scraped"
    /\ pc' = "classified"
    /\ classement' \in TiersFor(avg_place)
    /\ UNCHANGED <<meta_list, champions_db, floor_env, all_rows, blocks, current_row,
                   cache, logged, printed, worksheet, requests, resolved, avg_place,
                   normed, previous, aside>>

NextTier == Classify

SpecTier == InitTier /\ [][NextTier]_vars

(***************************************************************************)
(* scrape_meta.py: the avg_place of a scraped record                       *)
(***************************************************************************)
\* update_google_sheet.py is not running
SheetAtRest ==
    /\ floor_env = CHOOSE f \in FloorValues : \A g \in FloorValues : f <= g
    /\ all_rows = <<>>
    /\ blocks = <<>>
    /\ current_row = 0
    /\ cache = ColdCache
    /\ logged = {}
    /\ printed = <<>>
    /\ worksheet = "old"
    /\ requests = <<>>
    /\ resolved = <<>>
    /\ normed = <<>>
    /\ previous = NoRun
    /\ upstream = LatestVersion
    /\ asked = <<>>
    /\ avg_place = 0
    /\ classement = ""

\* at most this many divs in the container of a composition
MaxDivs == 4

\* get_text(strip=True) of the divs: the label, averages, other texts
DivTexts == {"Place", "4.25", "3.9", "Top 4", "12.5"}

DivSeqs == UNION {[1..n -> DivTexts] : n \in 0..MaxDivs}

IsDigit(c) == Ord(c) \in 48..57

\* re.match(r'^\d\.\d+$', txt)
IsPlaceNumber(txt) ==
    /\ Len(txt) >= 3
    /\ IsDigit(CharAt(txt, 1))
    /\ CharAt(txt, 2) = "."
    /\ \A i \in 3..Len(txt) : IsDigit(CharAt(txt, i))

\* line 46: avg_place = "4.5"
DefaultPlace == "4.5"

\* lines 46-63: the first div 'Place' that is not the last one; the text of
\* the next div; when it is not a number, the first number among the divs
\* i+1 .. min(i+4, len)-1 (0-based), and the text itself when there is none
avg_place_of(divs) ==
    LET found == {i \in 1..(Len(divs) - 1) : divs[i] = "Place"}
    IN  IF found = {} THEN DefaultPlace
        ELSE LET i == CHOOSE x \in found : \A y \in found : x <= y
                 last == IF i + 3 <= Len(divs) THEN i + 3 ELSE Len(divs)
                 nums == {j \in (i + 1)..last : IsPlaceNumber(divs[j])}
             IN  IF IsPlaceNumber(divs[i + 1]) THEN divs[i + 1]
                 ELSE IF nums # {} THEN divs[CHOOSE x \in nums : \A y \in nums : x <= y]
                 ELSE divs[i + 1]

\* the page holds one composition container with the divs all_divs
InitScrape ==
    /\ SheetAtRest
    /\ pc = "scraping"
    /\ meta_list = <<>>
    /\ champions_db = DbResolving
    /\ all_divs \in DivSeqs
    /\ comps = <<>>
    /\ final_meta = <<>>

\* lines 39-103 for the container: the record is appended to comps
ScrapeComp ==
    /\ pc = "scraping"
    /\ pc' = "scraped"
    /\ comps' = Append(comps, [name |-> "A & B", avg_place |-> avg_place_of(all_divs)])
    /\ UNCHANGED <<meta_list, champions_db, floor_env, all_rows, blocks, current_row,
                   cache, logged, printed, worksheet, requests, resolved, avg_place,
                   classement, normed, previous, upstream, asked, all_divs, final_meta>>

NextScrape == ScrapeComp

SpecScrape == InitScrape /\ [][NextScrape]_vars

(***************************************************************************)
(* scrape_meta.py: the post-cleaning of early_chercher in main             *)
(***************************************************************************)
\* at most this many names in the early_chercher the language model wrote
MaxEarly == 2

\* champions_db as the language model wrote it: costs 1 to 5, every
\* champion of ChampOrder cheap, one champion outside the compositions
DbCosts ==
    [n \in {"Ahri", "Jinx", "Lux", "Miss Fortune", "Zed"} |->
        CASE n = "Ahri" -> [cost |-> 1]
          [] n = "Jinx" -> [cost |-> 2]
          [] n = "Lux"  -> [cost |-> 1]
          [] n = "Zed"  -> [cost |-> 5]
          [] OTHER      -> [cost |-> 2]]

\* names written in early_chercher; "Kai" is in no champions_db
EarlyNames == {"Ahri", "Jinx", "Zed", "Kai"}

RECURSIVE JoinSlash(_)
\* " / ".join(names)
JoinSlash(names) ==
    IF names = <<>> THEN ""
    ELSE IF Len(names) = 1 THEN names[1]
    ELSE names[1] \o " / " \o JoinSlash(Tail(names))

RECURSIVE SplitSlash(_)
\* text.split('/')
SplitSlash(text) ==
    LET at == {i \in 1..Len(text) : CharAt(text, i) = "/"}
    IN  IF at = {} THEN <<text>>
        ELSE LET p == CHOOSE x \in at : \A y \in at : x <= y
             IN  <<SubSeq(text, 1, p - 1)>> \o SplitSlash(SubSeq(text, p + 1, Len(text)))

\* line 221: [c.strip() for c in comp.get('early_chercher', '').split('/')]
early_champs_of(comp) ==
    LET parts == SplitSlash(EntryGet(comp, "early_chercher", ""))
    IN  [i \in 1..Len(parts) |-> StrStrip(parts[i])]

\* db.get(name, {}).get('cost', d)
CostOf(db, name, d) ==
    IF name \in DOMAIN db /\ "cost" \in DOMAIN db[name] THEN db[name].cost ELSE d

\* every name kept, whatever its cost
KeepEarly_All(cost) == TRUE

\* lines 226-231: a cost of 1 to 3 is kept, and so is a name without cost
KeepEarly(cost) == (cost > 0 /\ cost < 4) \/ cost = 0

\* line 237: the first three champions of the composition of cost below 3
\* (5 when champions_db gives none)
fallback_of(comp, db) ==
    LET cheap == SelectSeq(EntryGet(comp, "champions", <<>>),
                           LAMBDA c : CostOf(db, c.name, 5) < 3)
        names == [i \in 1..Len(cheap) |-> cheap[i].name]
    IN  SubSeq(names, 1, IF Len(names) < 3 THEN Len(names) ELSE 3)

\* lines 221-238 for one composition: comp with its early_chercher rewritten
post_clean(comp, db) ==
    LET cleaned_early == SelectSeq(early_champs_of(comp),
                                   LAMBDA name : KeepEarly(CostOf(db, name, 0)))
        text == IF cleaned_early # <<>> THEN JoinSlash(cleaned_early)
                ELSE IF fallback_of(comp, db) # <<>> THEN JoinSlash(fallback_of(comp, db))
                ELSE "Early Units"
    IN  [k \in DOMAIN comp \cup {"early_chercher"} |->
            IF k = "early_chercher" THEN text ELSE comp[k]]

\* the compositions the language model wrote: the first champions of
\* ChampOrder, an early_chercher of names joined by " / " or none at all
EarlyComps ==
    LET bare(n) == [classement |-> "S", compo |-> "Comp", carries |-> "Carry",
                    synergies |-> <<>>,
                    champions |-> [i \in 1..n |-> ChampEntry(ChampOrder[i])]]
        texts == {JoinSlash(q) : q \in UNION {[1..m -> EarlyNames] : m \in 0..MaxEarly}}
    IN  {bare(n) : n \in 0..Len(ChampOrder)}
        \cup {[k \in DOMAIN bare(n) \cup {"early_chercher"} |->
                  IF k = "early_chercher" THEN t ELSE bare(n)[k]]
              : n \in 0..Len(ChampOrder), t \in texts}

\* meta.yaml as written from the answer of the language model
InitClean ==
    /\ SheetAtRest
    /\ pc = "written"
    /\ meta_list \in {<<c>> : c \in EarlyComps}
    /\ champions_db \in {DbResolving, DbCosts}
    /\ all_divs = <<>>
    /\ comps = <<>>
    /\ final_meta = <<>>

\* lines 213-239: the file is read, every composition cleaned, the file dumped
PostClean ==
    /\ pc = "written"
    /\ pc' = "cleaned"
    /\ final_meta' = [i \in 1..Len(meta_list) |-> post_clean(meta_list[i], champions_db)]
    /\ UNCHANGED <<meta_list, champions_db, floor_env, all_rows, blocks, current_row,
                   cache, logged, printed, worksheet, requests, resolved, avg_place,
                   classement, normed, previous, upstream, asked, all_divs, comps>>

NextClean == PostClean

SpecClean == InitClean /\ [][NextClean]_vars

(***************************************************************************)
(* Reading the grid                                                        *)
(***************************************************************************)
RowAt(i) == IF i \in 1..Len(all_rows) THEN all_rows[i] ELSE <<>>

CellAt(i, col) == IF col \in 1..Len(RowAt(i)) THEN RowAt(i)[col] ELSE ""

BlockStart(k) == blocks[k][1]

BlockHeight(k) == blocks[k][2]

\* the champion names of composition k, in the order of meta.yaml
GivenNames(k) ==
    [i \in 1..Len(meta_list[k].champions) |-> meta_list[k].champions[i].name]

SynergyCount(k) == Len(meta_list[k].synergies)

\* the cell of the names row that shows champion n
NameCell(n) ==
    n \o "\n" \o Join(Stars(IF "stars" \in DOMAIN ChampEntry(n) THEN ChampEntry(n).stars ELSE 2))

\* the champion shown in champion column j of block k ("" for none)
Occupant(k, j) ==
    LET cell == CellAt(BlockStart(k) + 1, 5 + j)
    IN  IF \E n \in ChampNames : cell = NameCell(n)
        THEN CHOOSE n \in ChampNames : cell = NameCell(n)
        ELSE ""

\* the items champions_db lists for champion n
ListedItems(n) ==
    IF n \in DOMAIN champions_db /\ "items" \in DOMAIN champions_db[n]
    THEN champions_db[n].items ELSE <<>>

\* the number of item cells filled under champion column j of block k
FilledItemCells(k, j) ==
    Cardinality({i \in 3..BlockHeight(k) : CellAt(BlockStart(k) + i - 1, 5 + j) # ""})

GreatestOf(S) == IF S = {} THEN 0 ELSE CHOOSE x \in S : \A y \in S : y <= x

\* every item listed for a champion of block k has its image in the grid
ItemsAllResolve(k) ==
    \A j \in 1..Len(GivenNames(k)) :
        /\ Occupant(k, j) # ""
        /\ FilledItemCells(k, j) = Len(ListedItems(Occupant(k, j)))

GreatestListed(k) ==
    GreatestOf({Len(ListedItems(Occupant(k, j))) : j \in 1..Len(GivenNames(k))})

GreatestResolved(k) ==
    GreatestOf({FilledItemCells(k, j) : j \in 1..Len(GivenNames(k))})

RECURSIVE SumHeights(_)
SumHeights(n) == IF n = 0 THEN 0 ELSE BlockHeight(n) + SumHeights(n - 1)

(***************************************************************************)
(* Properties                                                              *)
(***************************************************************************)
\* C1: a block of a composition whose items all resolve has height
\* max(2 + m, 2 * s), m the greatest item count among its champions and s the
\* number of synergies of the composition.
C1_BlockHeight ==
    \A k \in 1..Len(blocks) :
        ItemsAllResolve(k) =>
            BlockHeight(k) = Max2(2 + GreatestListed(k), 2 * SynergyCount(k))

\* item counts [0,3,1] with 2 synergies, all items resolved: height 5
C1_Witness ==
    \E k \in 1..Len(blocks) :
        /\ ItemsAllResolve(k)
        /\ <<Len(ListedItems(Occupant(k, 1))), Len(ListedItems(Occupant(k, 2))),
             Len(ListedItems(Occupant(k, 3)))>> = <<0, 3, 1>>
        /\ SynergyCount(k) = 2
        /\ BlockHeight(k) = 5

\* C2: the height of a block depends only on the resolved item counts: it is
\* max(2 + r, 2 * s), r the greatest number of resolved items of a champion.
C2_HeightFromResolved ==
    \A k \in 1..Len(blocks) :
        BlockHeight(k) = Max2(2 + GreatestResolved(k), 2 * SynergyCount(k))

\* C3 as stated: each of the five fixed columns of every block has exactly one
\* merge over the rows [R, R+H).
C3_FiveColumnsMerged ==
    pc = "done" =>
        \A k \in 1..Len(blocks) : \A col \in 1..5 :
            Cardinality({i \in 1..Len(requests) :
                requests[i] = Req("mergeCells", BlockStart(k) - 1,
                                  BlockStart(k) - 1 + BlockHeight(k), col - 1, col)}) = 1

\* C3: each of the four columns tier, title, early picks and carries of every
\* block has exactly one merge over the rows [R, R+H), and no merge touches
\* the synergies column.
C3_FourColumnsMerged ==
    pc = "done" =>
        /\ \A k \in 1..Len(blocks) : \A col \in 1..4 :
              Cardinality({i \in 1..Len(requests) :
                  requests[i] = Req("mergeCells", BlockStart(k) - 1,
                                    BlockStart(k) - 1 + BlockHeight(k), col - 1, col)}) = 1
        /\ \A i \in 1..Len(requests) :
              requests[i].kind = "mergeCells" =>
                  ~(requests[i].startColumnIndex <= 4 /\ 4 < requests[i].endColumnIndex)

\* two blocks formatted, the second of more than two rows
C3_Witness ==
    /\ pc = "done"
    /\ Len(blocks) = 2
    /\ BlockHeight(2) > 2
    /\ Cardinality({i \in 1..Len(requests) : requests[i].kind = "mergeCells"}) = 9

\* C4: one header row, then the blocks stacked without gap or overlap: the
\* first block starts at row 2, each later block starts where the previous one
\* ends, the rows emitted for the blocks are as many as their heights, and the
\* grid has 1 plus the sum of the heights rows.
C4_Stacked ==
    pc \in {"loop", "format", "done"} =>
        /\ Len(all_rows) >= 1
        /\ all_rows[1] = header_of(total_cols)
        /\ \A k \in 1..Len(blocks) :
              BlockStart(k) = IF k = 1 THEN 2 ELSE BlockStart(k - 1) + BlockHeight(k - 1)
        /\ Len(all_rows) = 1 + SumHeights(Len(blocks))
        /\ current_row = Len(all_rows) + 1

\* two blocks of different heights stacked
C4_Witness ==
    /\ pc = "done"
    /\ Len(blocks) = 2
    /\ BlockHeight(1) = 5
    /\ BlockHeight(2) = 2
    /\ BlockStart(2) = 7
    /\ Len(all_rows) = 8

\* the least number that is at least the floor and every champion count
C5_Slots ==
    CHOOSE n \in 0..(floor_env + MaxChampsPerComp) :
        /\ n >= floor_env
        /\ \A k \in 1..Len(meta_list) : n >= Len(meta_list[k].champions)
        /\ n = floor_env \/ \E k \in 1..Len(meta_list) : n = Len(meta_list[k].champions)

\* C5: the champion columns are max(floor, largest champion count) many, every
\* row of the grid has 5 plus that many cells, and every champion of every
\* composition has a column.
C5_ChampionColumns ==
    pc \in {"loop", "format", "done"} =>
        /\ max_champs = C5_Slots
        /\ \A i \in 1..Len(all_rows) : Len(all_rows[i]) = 5 + C5_Slots
        /\ \A k \in 1..Len(blocks) :
              {Occupant(k, j) : j \in 1..C5_Slots} \ {""} = Range(GivenNames(k))

\* a composition with more champions than the floor, all of them shown
C5_Witness ==
    /\ pc = "done"
    /\ floor_env = 1
    /\ \E k \in 1..Len(blocks) :
          /\ Len(GivenNames(k)) = 3
          /\ \A j \in 1..3 : Occupant(k, j) # ""
    /\ \A i \in 1..Len(all_rows) : Len(all_rows[i]) = 8

\* the cost given to a champion champions_db has no cost for
DefaultCost == 1

KnownCost(n) ==
    IF n \in DOMAIN champions_db /\ "cost" \in DOMAIN champions_db[n]
    THEN champions_db[n].cost ELSE DefaultCost

\* the place of champion n in the list of composition k
GivenPlace(k, n) == CHOOSE i \in 1..Len(GivenNames(k)) : GivenNames(k)[i] = n

\* C6: in every block the champions fill the champion columns from the left
\* in ascending cost, champions of equal cost in their original order, a
\* champion without known cost ordered with the default cost.
C6_AscendingCostStable ==
    \A k \in 1..Len(blocks) :
        LET n == Len(GivenNames(k))
        IN  /\ {Occupant(k, j) : j \in 1..n} = Range(GivenNames(k))
            /\ \A i, j \in 1..n :
                  i < j =>
                      /\ KnownCost(Occupant(k, i)) <= KnownCost(Occupant(k, j))
                      /\ KnownCost(Occupant(k, i)) = KnownCost(Occupant(k, j)) =>
                            GivenPlace(k, Occupant(k, i)) < GivenPlace(k, Occupant(k, j))

\* Jinx (cost 2), Lux (cost 1), Ahri (no cost) are shown as Lux, Ahri, Jinx
C6_Witness ==
    /\ Len(blocks) = 1
    /\ champions_db = DbNoisy
    /\ GivenNames(1) = <<"Jinx", "Lux", "Ahri">>
    /\ <<Occupant(1, 1), Occupant(1, 2), Occupant(1, 3)>> = <<"Lux", "Ahri", "Jinx">>

\* the tier of the half-open table: [4.15, 4.25) is S, ..., 4.45 and more is B
HalfOpenTier(place) ==
    CASE place < 4150 -> "S+"
      [] place < 4250 -> "S"
      [] place < 4350 -> "A+"
      [] place < 4450 -> "A"
      [] OTHER        -> "B"

\* C7: the classification is a total function of avg_place with half-open
\* ranges: below 4.15 is S+, [4.15, 4.25) is S, [4.25, 4.35) is A+,
\* [4.35, 4.45) is A, 4.45 and more is B.
C7_HalfOpenTiers ==
    pc = "classified" => classement = HalfOpenTier(avg_place)

\* C8: a catalog fetch that fails does not abort the run: the layout is
\* still built and written.
C8_FetchFailureDoesNotAbort == pc # "failed"

C10_ReportedOnce ==
    /\ \A i \in 1..Len(resolved) : resolved[i].emitted \in {0, 1}
    /\ \A i, j \in 1..Len(resolved) :
          (i < j /\ resolved[i].emitted = 1 /\ resolved[j].literal = resolved[i].literal) =>
              /\ resolved[j].emitted = 0
              /\ resolved[j].url = ""
              /\ ~resolved[j].raised
    /\ \A i, j \in 1..Len(printed) : i # j => printed[i].literal # printed[j].literal

\* "Zzz" looked up twice: reported by the first call, not by the second
C10_Witness ==
    \E i, j \in 1..Len(resolved) :
        /\ i < j
        /\ resolved[i].literal = "Zzz"
        /\ resolved[j].literal = "Zzz"
        /\ resolved[i].emitted = 1
        /\ resolved[j].emitted = 0
        /\ resolved[j].url = ""

\* the item index the cache holds (the empty index while the file is missing)
CachedItemIdx ==
    IF cache[ItemIndexFile(LatestVersion)] = "" THEN EmptyDict
    ELSE ItemIdx[cache[ItemIndexFile(LatestVersion)]]

\* the URL of the image file full ("" for none)
ItemUrl(full) ==
    IF full = "" THEN "" ELSE DD_CDN_BASE \o "/" \o LatestVersion \o "/img/tft-item/" \o full

\* C11: a name of the alias table resolves as its alias target does: every
\* call whose name (stripped) is a key of ITEM_ALIASES returns the URL the
\* catalog gives for the alias target, whatever the name itself would match.
C11_AliasFirst ==
    \A i \in 1..Len(resolved) :
        (StrStrip(resolved[i].literal) \in DOMAIN ITEM_ALIASES /\ ~resolved[i].raised) =>
            resolved[i].url =
                ItemUrl(FindFull(CachedItemIdx, ITEM_ALIASES[StrStrip(resolved[i].literal)]))

\* "Redemption" is itself the name of a catalog item, and resolves to the
\* image of its alias target TFT_Item_Redemption
C11_Witness ==
    \E i \in 1..Len(resolved) :
        /\ resolved[i].literal = "Redemption"
        /\ Get(CachedItemIdx, NormStr("Redemption")) = "TFT5_Item_RedemptionRadiant.png"
        /\ resolved[i].url = ItemUrl("TFT_Item_Redemption.png")

\* C12: a failed catalog fetch, or an answer without the catalog data, is an
\* error: no empty catalog is persisted to the cache (and so none is returned
\* by the loaders, which return what they persist).
C12_NoEmptyCatalog ==
    /\ cache[ItemIndexFile(LatestVersion)] # "" =>
          ItemIdx[cache[ItemIndexFile(LatestVersion)]] # EmptyDict
    /\ cache[TftIndexFile] # "" => TftIdx[cache[TftIndexFile]] # EmptyDict
    /\ cache[ChampionIndexFile(LatestVersion)] # "" =>
          ChampionIdx[cache[ChampionIndexFile(LatestVersion)]] # EmptyDict

\* C13: after a fetch-and-persist that was interrupted at any point, the cache
\* entry of every (kind, version) is absent or holds a complete document:
\* the version file is absent or the full version, no index file is cut short.
C13_NoPartialFile ==
    /\ cache[VersionFile] \in {"", LatestVersion}
    /\ \A f \in CacheFiles \ {VersionFile} : cache[f] # TruncatedJson

\* a cache file that holds a complete document
Complete(files, file) == files[file] \notin {"", TruncatedJson}

\* C14: once a call has left the item catalog of the version in the cache,
\* every later call, of the same process or of a later one, makes no GET,
\* does not fail, leaves the cache files as they were, and resolves a literal
\* from the same entries (the same literal gives the same URL); the cache
\* still holds the catalog.
C14_ServedFromCache ==
    \A i \in 1..Len(resolved) : \A j \in (i + 1)..Len(resolved) :
        Complete(resolved[i].files, ItemIndexFile(LatestVersion)) =>
            /\ resolved[j].gets = <<>>
            /\ ~resolved[j].raised
            /\ resolved[j].files = resolved[i].files
            /\ cache = resolved[i].files
            /\ resolved[j].url =
                   IF StrStrip(resolved[j].literal) = "" THEN ""
                   ELSE ItemUrl(FindFull(ItemIdx[resolved[i].files[ItemIndexFile(LatestVersion)]],
                                         AliasOf(StrStrip(resolved[j].literal))))

\* the catalog is fetched by one call of one process and read from the cache
\* by a call of a later process (the unknown name is reported by both)
C14_Witness ==
    \E i \in 1..Len(resolved) : \E j \in (i + 1)..Len(resolved) :
        /\ ItemIndexFile(LatestVersion) \in Range(resolved[i].gets)
        /\ resolved[i].files[ItemIndexFile(LatestVersion)] = "good"
        /\ resolved[i].literal = "Zzz" /\ resolved[i].emitted = 1
        /\ resolved[j].literal = "Zzz" /\ resolved[j].emitted = 1
        /\ resolved[j].gets = <<>>
        /\ \E k \in 1..Len(resolved) : resolved[k].url # "" /\ resolved[k].gets = <<>>

\* C15: normalisation is idempotent: a call of _norm_key on the key an
\* earlier call returned returns that key.
C15_Idempotent ==
    \A i, j \in 1..Len(normed) :
        (~normed[j].none /\ normed[j].arg = normed[i].key) => normed[j].key = normed[i].key

\* a key that differs from its text is normalised again
C15_Witness ==
    /\ Len(normed) = 2
    /\ normed[2].origin = "key"
    /\ normed[1].arg # normed[1].key
    /\ normed[1].key # <<>>
    /\ normed[2].key = normed[1].key

\* an upper-case letter and its lower-case letter
CasePair(a, b) == (a \in 65..90 /\ b = a + 32) \/ <<a, b>> = <<201, 233>>

\* a letter and the same letter under an acute accent
AccentPair(a, b) == <<a, b>> \in {<<69, 201>>, <<101, 233>>}

SameLetter(a, b) ==
    CasePair(a, b) \/ CasePair(b, a) \/ AccentPair(a, b) \/ AccentPair(b, a)

\* whitespace and punctuation among the code points of the texts
IsNoise(c) == c \in {32, 45, 8217}

\* ys is xs with one noise character more
OneNoiseMore(xs, ys) ==
    /\ Len(ys) = Len(xs) + 1
    /\ \E p \in 1..Len(ys) :
          /\ IsNoise(ys[p])
          /\ xs = SubSeq(ys, 1, p - 1) \o SubSeq(ys, p + 1, Len(ys))

\* xs and ys differ at one place, by case or accent only, or by one
\* punctuation or whitespace character
DifferByNoise(xs, ys) ==
    \/ /\ Len(xs) = Len(ys)
       /\ \E p \in 1..Len(xs) :
             /\ SameLetter(xs[p], ys[p])
             /\ \A q \in 1..Len(xs) : q # p => xs[q] = ys[q]
    \/ OneNoiseMore(xs, ys)
    \/ OneNoiseMore(ys, xs)

\* "Redemption" with an acute e, and "redemption"
RedemptionAccented == <<82, 233, 100, 101, 109, 112, 116, 105, 111, 110>>

RedemptionPlain == <<114, 101, 100, 101, 109, 112, 116, 105, 111, 110>>

\* C16: two texts that differ only by the case of a letter, by an accent or
\* by a punctuation or whitespace character have the same key (so have
\* "Redemption" written with an accent and "redemption"); None and the empty
\* text have the empty key; every call returns a key.
C16_NoiseInsensitive ==
    /\ \A i, j \in 1..Len(normed) :
          (~normed[i].none /\ ~normed[j].none /\ DifferByNoise(normed[i].arg, normed[j].arg))
              => normed[i].key = normed[j].key
    /\ \A i \in 1..Len(normed) :
          (normed[i].none \/ normed[i].arg = <<>>) => normed[i].key = <<>>
    /\ _norm_key(RedemptionAccented) = _norm_key(RedemptionPlain)

\* "E acute, hyphen, e" and "e, hyphen, e" both give the key "ee"
C16_Witness ==
    /\ Len(normed) = 2
    /\ normed[1].arg = <<201, 45, 101>>
    /\ normed[2].arg = <<101, 45, 101>>
    /\ normed[1].key = <<101, 101>>
    /\ normed[2].key = <<101, 101>>

NamesIn(line) == IF line.kind = "missing-item" THEN {line.name} ELSE {}

\* C18: a run that ends with names left unresolved has printed, exactly once
\* and after every other line that names one, a line listing all of them.
C18_SummaryAtEnd ==
    (pc = "done" /\ logged # {}) =>
        \E i \in 1..Len(printed) :
            /\ NamesIn(printed[i]) = logged
            /\ \A j \in 1..Len(printed) : j # i => NamesIn(printed[j]) # logged
            /\ \A j \in (i + 1)..Len(printed) : NamesIn(printed[j]) = {}

\* the cell of the synergies column at block row r (1-based) of block b
SynergyColumnCell(b, r) == CellAt(BlockStart(b) + r - 1, col_synergies)

\* C19: in every block built, the synergy of 0-based index k has its icon in
\* the synergies column at block row 2k+1 and its name at block row 2k+2;
\* the block is at least 2*s rows high, s the number of synergies, and the
\* synergies column is empty below row 2*s.
C19_SynergyColumn ==
    \A b \in 1..Len(blocks) :
        /\ BlockHeight(b) >= 2 * SynergyCount(b)
        /\ \A k \in 0..(SynergyCount(b) - 1) :
              /\ SynergyColumnCell(b, 2 * k + 1) = SynergyCell(meta_list[b].synergies[k + 1])
              /\ SynergyColumnCell(b, 2 * k + 1) # ""
              /\ SynergyColumnCell(b, 2 * k + 2) = meta_list[b].synergies[k + 1]
        /\ \A r \in (2 * SynergyCount(b) + 1)..BlockHeight(b) : SynergyColumnCell(b, r) = ""

\* a block without synergies above a block with MaxSyn synergies that is
\* higher than its synergies
C19_Witness ==
    /\ Len(blocks) = 2
    /\ SynergyCount(1) = 0
    /\ BlockHeight(1) > 0
    /\ SynergyCount(2) = MaxSyn
    /\ BlockHeight(2) > 2 * MaxSyn
    /\ SynergyColumnCell(2, 2 * MaxSyn - 1) # ""

\* the URL item_name resolves to against the item catalog in the cache
ResolvedUrl(item_name) ==
    IF StrStrip(item_name) = "" THEN ""
    ELSE ItemUrl(FindFull(CachedItemIdx, AliasOf(StrStrip(item_name))))

\* the images of the items of the list that resolve, in list order
ResolvedImages(items) ==
    LET urls == [i \in 1..Len(items) |-> ResolvedUrl(items[i])]
        kept == SelectSeq(urls, LAMBDA u : u # "")
    IN  [i \in 1..Len(kept) |-> create_image_formula(kept[i], 0)]

\* C20: in every block built, the column of each champion holds the images of
\* the champion's resolved items at block rows 3, 4, ..., 2+k, in list order,
\* and is empty at every row below 2+k.
C20_ItemsPacked ==
    \A b \in 1..Len(blocks) : \A j \in 1..Len(blocks[b][3]) :
        \A r \in 3..BlockHeight(b) :
            CellAt(BlockStart(b) + r - 1, col_champions_start - 1 + j) =
                IF r - 2 <= Len(ResolvedImages(blocks[b][3][j].items))
                THEN ResolvedImages(blocks[b][3][j].items)[r - 2]
                ELSE ""

\* C21: when a call of get_item_image_url ends unresolved, the name it was
\* given, as the caller wrote it, is in _MISSING_ITEMS_LOGGED.
C21_OriginalNameRecorded ==
    \A i \in 1..Len(resolved) :
        (~resolved[i].raised /\ resolved[i].url = "" /\ StrStrip(resolved[i].literal) # "")
            => resolved[i].literal \in logged

\* the calls of process p that returned a version
Answered(p) == SelectSeq(asked[p], LAMBDA call : ~call.raised)

\* C22: the calls of _dd_latest_version of one process return the same id,
\* and the first call of a process returns the version the upstream serves
\* at the time of the call.
C22_VersionPerProcess ==
    \A p \in 1..Len(asked) :
        /\ \A i, j \in 1..Len(Answered(p)) : Answered(p)[i].id = Answered(p)[j].id
        /\ Answered(p) # <<>> => Answered(p)[1].id = Answered(p)[1].current

\* the positions of the instructions of a kind in a batch
Positions(batch, kind) == {i \in 1..Len(batch) : batch[i].kind = kind}

\* the range of instruction a lies within the range of instruction b
RangeWithin(a, b) ==
    /\ b.startRowIndex <= a.startRowIndex /\ a.endRowIndex <= b.endRowIndex
    /\ b.startColumnIndex <= a.startColumnIndex /\ a.endColumnIndex <= b.endColumnIndex

\* the ranges of instructions a and b share a cell
RangesOverlap(a, b) ==
    /\ a.startRowIndex < b.endRowIndex /\ b.startRowIndex < a.endRowIndex
    /\ a.startColumnIndex < b.endColumnIndex /\ b.startColumnIndex < a.endColumnIndex

C24_NumericPlace ==
    \A i \in 1..Len(comps) :
        comps[i].avg_place = DefaultPlace \/ IsPlaceNumber(comps[i].avg_place)

\* the champions of composition i of cost below 3 in champions_db
CheapChampions(i) ==
    SelectSeq([j \in 1..Len(meta_list[i].champions) |-> meta_list[i].champions[j].name],
              LAMBDA n : n \in DOMAIN champions_db /\ "cost" \in DOMAIN champions_db[n]
                         /\ champions_db[n].cost < 3)

\* a name whose cost in champions_db is 4 or more
IsCostly(n) ==
    n \in DOMAIN champions_db /\ "cost" \in DOMAIN champions_db[n] /\ champions_db[n].cost >= 4

C26_NotLeftCleared == pc = "failed" => worksheet # "cleared"

====
